---- MODULE Spec2Model ----
(***************************************************************************)
(* ishap::timestep::FixedTimestepRunner (include/ishap/ishap.hpp).         *)
(*                                                                         *)
(* Durations are integers (std::chrono::nanoseconds counts).  The double   *)
(* time_scale is a rational time_scale / ScaleDen, so ScaleDen stands for  *)
(* 1.0.  One second is TicksPerSecond duration units.  All values stay far *)
(* from the limits of the 64-bit representation, and the doubles handed to *)
(* set_time_scale and set_hz are finite.                                   *)
(***************************************************************************)
EXTENDS Integers, FiniteSets, Sequences, TLC

\* ---- bounds of the model ----
MaxTime == 2           \* largest step and max_delta a setter is given
MaxSubsteps == 2       \* largest max_substeps a setter is given
MaxOverflow == 2       \* largest safety_max_accumulator_overflow constructed with
MaxNow == 1            \* latest reading of the steady clock
ClockMaxNow == 3       \* latest reading of the steady clock under SpecClock
MaxDebt == 1           \* the accumulator is followed down to -MaxDebt

\* the double 1.0, in the unit of time_scale
ScaleDen == 2

\* one second, in duration units
TicksPerSecond == MaxTime

\* the arguments the operations are called with: a value the code rejects or
\* clamps, the smallest valid one and the largest one of the model
StepArgs     == {0, 1, MaxTime}
HzArgs       == {0, 1, TicksPerSecond, TicksPerSecond + 1}
DeltaArgs    == {0, 1, MaxTime}
SubstepArgs  == {0, 1, MaxSubsteps}
ScaleArgs    == {-1, ScaleDen, ScaleDen + 1}
Elapsed      == {-1, 0, 1, MaxTime + 1}
OverflowVals == {1, MaxOverflow}

VARIABLES
    step,                            \* m_config.step
    time_scale,                      \* m_config.time_scale  (in 1/ScaleDen)
    safety_max_delta,                \* m_config.safety_max_delta
    safety_max_substeps,             \* m_config.safety_max_substeps
    safety_max_accumulator_overflow, \* m_config.safety_max_accumulator_overflow
    m_on_update_function,            \* TRUE iff a step callback is set
    m_on_error_function,             \* TRUE iff an error callback is set
    m_last,                          \* clock reference (0 = epoch, unset)
    m_accumulator,
    m_paused,
    m_step_error_caught,
    m_last_delta,
    m_last_steps,
    now,                             \* latest reading taken of the steady clock
                                     \* (0 = none taken yet)
    terminated,                      \* std::terminate was reached
    \* ---- what the caller saw of the last operation (not program state) ----
    lastOp,                          \* "push_time", "tick", "reset" or "other"
    fed,                             \* raw_elapsed of the advance it ran while
                                     \* not paused (0 if it ran none)
    step_calls,                      \* step callback invocations during it
    fail_calls,                      \* of these, the ones that raised
    error_calls,                     \* error callback invocations during it
    trimmed                          \* it cut the accumulator to the ceiling

config == <<step, time_scale, safety_max_delta, safety_max_substeps,
            safety_max_accumulator_overflow>>
callbacks == <<m_on_update_function, m_on_error_function>>
run == <<m_accumulator, m_paused, m_step_error_caught, m_last_delta, m_last_steps>>
seen == <<lastOp, fed, step_calls, fail_calls, error_calls, trimmed>>
clock == <<m_last, now>>
vars == <<config, callbacks, clock, run, terminated, seen>>

\* ---- pure parts of advance() ----

ClampMissing(raw, maxd) == raw

\* dt > safety_max_delta ? safety_max_delta : dt
Clamp(raw, maxd) == IF raw > maxd THEN maxd ELSE raw

\* duration_cast of a double count to an integer count: truncation toward 0
TruncDiv(n, d) == IF n >= 0 THEN n \div d ELSE -((-n) \div d)

ScaleRoundingUp(dt, ts) ==
    IF ts # ScaleDen THEN TruncDiv(dt * ts + ScaleDen - 1, ScaleDen) ELSE dt

\* if (time_scale != 1.0) dt = duration_cast<ns>(dt * time_scale)
Scale(dt, ts) == IF ts # ScaleDen THEN TruncDiv(dt * ts, ScaleDen) ELSE dt

LoopGuardOffByOne(acc, steps, st, cap) == acc >= st /\ steps <= cap

\* while (m_accumulator >= m_config.step && steps < m_config.safety_max_substeps)
LoopGuard(acc, steps, st, cap) == acc >= st /\ steps < cap

\* m_accumulator -= m_config.step
Consume(acc, st) == acc - st

\* max_acc = step * safety_max_accumulator_overflow
MaxAcc(st, ovf) == st * ovf

NeedsTrimNever(acc, st, ovf) == FALSE

\* if (m_accumulator > max_acc)
NeedsTrim(acc, st, ovf) == acc > MaxAcc(st, ovf)

\* if (m_on_error_function) m_on_error_function();
ErrorInvoked(hasErr) == hasErr

\* One pass of the step loop and the passes after it.  s is the loop state:
\* acc, steps, and what the callbacks did.  failAt is the set of invocation
\* numbers on which the step callback raises; errThrows says that the error
\* callback itself raises (inside the catch handler of a noexcept function,
\* which ends in std::terminate).
RECURSIVE StepLoop(_, _, _, _, _, _, _)
StepLoop(s, st, cap, hasFn, hasErr, failAt, errThrows) ==
    IF ~LoopGuard(s.acc, s.steps, st, cap) THEN s
    ELSE LET failed  == hasFn /\ (s.calls + 1) \in failAt
             onError == failed /\ ErrorInvoked(hasErr)
             s1 == [s EXCEPT !.calls  = IF hasFn THEN @ + 1 ELSE @,
                             !.fails  = IF failed THEN @ + 1 ELSE @,
                             !.caught = @ \/ failed,
                             !.errors = IF onError THEN @ + 1 ELSE @]
         IN IF onError /\ errThrows
            THEN [s1 EXCEPT !.terminated = TRUE]
            ELSE StepLoop([s1 EXCEPT !.acc = Consume(s.acc, st), !.steps = @ + 1],
                          st, cap, hasFn, hasErr, failAt, errThrows)

ScaleThenClamp(raw, maxd, ts) == Clamp(Scale(raw, ts), maxd)

\* the dt advance() adds to the accumulator: clamped, then scaled
ScaledDelta(raw, maxd, ts) == Scale(Clamp(raw, maxd), ts)

AfterLoopNeedingCallback(acc, raw, st, ts, maxd, cap, hasFn, hasErr, failAt, errThrows) ==
    StepLoop([acc |-> acc + ScaledDelta(raw, maxd, ts), steps |-> 0, calls |-> 0,
              fails |-> 0, errors |-> 0, caught |-> FALSE, terminated |-> FALSE],
             st, IF hasFn THEN cap ELSE 0, hasFn, hasErr, failAt, errThrows)

\* advance() when not paused, up to the end of the step loop
AfterLoop(acc, raw, st, ts, maxd, cap, hasFn, hasErr, failAt, errThrows) ==
    StepLoop([acc |-> acc + ScaledDelta(raw, maxd, ts), steps |-> 0, calls |-> 0,
              fails |-> 0, errors |-> 0, caught |-> FALSE, terminated |-> FALSE],
             st, cap, hasFn, hasErr, failAt, errThrows)

\* advance() when not paused: the values it leaves behind.  A call that ends in
\* std::terminate reaches neither the trim nor the write of m_last_steps.
Advance(acc, raw, st, ts, maxd, cap, ovf, hasFn, hasErr, failAt, errThrows) ==
    LET s == AfterLoop(acc, raw, st, ts, maxd, cap, hasFn, hasErr, failAt, errThrows)
        trim == ~s.terminated /\ NeedsTrim(s.acc, st, ovf)
    IN [acc |-> IF trim THEN MaxAcc(st, ovf) ELSE s.acc, steps |-> s.steps,
        calls |-> s.calls, fails |-> s.fails, errors |-> s.errors,
        caught |-> s.caught, terminated |-> s.terminated, trimmed |-> trim]

\* ---- the state after construction ----
Init ==
    /\ step \in {1, MaxTime}
    /\ time_scale = ScaleDen
    /\ safety_max_delta = MaxTime
    /\ safety_max_substeps = MaxSubsteps
    /\ safety_max_accumulator_overflow \in OverflowVals
    /\ m_on_error_function = FALSE
    \* FixedTimestepRunner() leaves m_last at the epoch and has no callback;
    \* FixedTimestepRunner(fn, config) ends with reset(true)
    /\ \/ m_last = 0 /\ now = 0 /\ m_on_update_function = FALSE
       \/ m_last = 1 /\ now = 1 /\ m_on_update_function \in BOOLEAN
    /\ m_accumulator = 0
    /\ m_paused = FALSE
    /\ m_step_error_caught = FALSE
    /\ m_last_delta = 0
    /\ m_last_steps = 0
    /\ terminated = FALSE
    /\ lastOp = "other"
    /\ fed = 0
    /\ step_calls = 0
    /\ fail_calls = 0
    /\ error_calls = 0
    /\ trimmed = FALSE

\* an operation that invokes no callback; no operation is called on a runner
\* whose process std::terminate has ended
NoCalls(op) ==
    /\ ~terminated
    /\ lastOp' = op
    /\ fed' = 0
    /\ step_calls' = 0
    /\ fail_calls' = 0
    /\ error_calls' = 0
    /\ trimmed' = FALSE
    /\ UNCHANGED terminated

advanceIgnoringPause(op, raw, failAt, errThrows) ==
    LET r == Advance(m_accumulator, raw, step, time_scale, safety_max_delta,
                     safety_max_substeps, safety_max_accumulator_overflow,
                     m_on_update_function, m_on_error_function, failAt, errThrows)
    IN /\ r.acc >= -MaxDebt
       /\ m_accumulator' = r.acc
       /\ m_step_error_caught' = r.caught
       /\ m_last_delta' = raw
       /\ m_last_steps' = IF r.terminated THEN m_last_steps ELSE r.steps
       /\ terminated' = r.terminated
       /\ lastOp' = op
       /\ fed' = raw
       /\ step_calls' = r.calls
       /\ fail_calls' = r.fails
       /\ error_calls' = r.errors
       /\ trimmed' = r.trimmed
       /\ ~terminated
       /\ UNCHANGED <<m_paused, config, callbacks>>

\* advance(raw_elapsed), reached through the public operation op
advance(op, raw, failAt, errThrows) ==
    /\ IF m_paused
       THEN /\ m_last_delta' = 0
            /\ m_last_steps' = 0
            /\ UNCHANGED <<m_accumulator, m_step_error_caught>>
            /\ NoCalls(op)
       ELSE LET r == Advance(m_accumulator, raw, step, time_scale, safety_max_delta,
                             safety_max_substeps, safety_max_accumulator_overflow,
                             m_on_update_function, m_on_error_function,
                             failAt, errThrows)
            IN /\ r.acc >= -MaxDebt
               /\ m_accumulator' = r.acc
               /\ m_step_error_caught' = r.caught
               /\ m_last_delta' = raw
               /\ m_last_steps' = IF r.terminated THEN m_last_steps ELSE r.steps
               /\ terminated' = r.terminated
               /\ lastOp' = op
               /\ fed' = raw
               /\ step_calls' = r.calls
               /\ fail_calls' = r.fails
               /\ error_calls' = r.errors
               /\ trimmed' = r.trimmed
    /\ ~terminated
    /\ UNCHANGED <<m_paused, config, callbacks>>

\* the number of fixed steps advance(raw) executes in the current state
StepsOf(raw) ==
    IF m_paused THEN 0
    ELSE Advance(m_accumulator, raw, step, time_scale, safety_max_delta,
                 safety_max_substeps, safety_max_accumulator_overflow,
                 m_on_update_function, m_on_error_function, {}, FALSE).steps

\* what the user's callbacks may do during advance(raw): the invocations on
\* which the step callback raises (none, the first, the last or all of them),
\* and whether the error callback raises
StepOutcomes(raw) ==
    LET all == 1 .. StepsOf(raw)
    IN IF m_on_update_function
       THEN {{}, {1} \cap all, {StepsOf(raw)} \cap all, all}
       ELSE {{}}
ErrorOutcomes(failAt) ==
    IF m_on_error_function /\ failAt # {} THEN BOOLEAN ELSE {FALSE}

\* steady_clock::now(), read while the clock shows at most maxNow: a monotonic
\* reading after the epoch, not before the latest one taken
ClockReadings(maxNow) == (IF now = 0 THEN 1 ELSE now) .. maxNow

push_timeThroughClock ==
    \E e \in Elapsed : \E failAt \in StepOutcomes(e) :
      \E errThrows \in ErrorOutcomes(failAt) : \E t \in ClockReadings(MaxNow) :
        /\ advance("push_time", e, failAt, errThrows)
        /\ now' = t
        /\ m_last' = t

\* double push_time(nanoseconds dt): advance(dt)
push_time ==
    \E e \in Elapsed : \E failAt \in StepOutcomes(e) :
      \E errThrows \in ErrorOutcomes(failAt) :
        /\ advance("push_time", e, failAt, errThrows)
        /\ UNCHANGED clock

resetForgettingPause(start_now, maxNow) ==
    \E t \in IF start_now THEN ClockReadings(maxNow) ELSE {now} :
      /\ m_accumulator' = 0
      /\ m_last_delta' = 0
      /\ m_last_steps' = 0
      /\ now' = t
      /\ m_last' = IF start_now THEN t ELSE m_last
      /\ UNCHANGED <<m_paused, m_step_error_caught, config, callbacks>>
      /\ NoCalls("reset")

\* void reset(bool start_now), called while the clock shows at most maxNow
resetWith(start_now, maxNow) ==
    \* if (start_now) m_last = steady_clock::now();
    \E t \in IF start_now THEN ClockReadings(maxNow) ELSE {now} :
      /\ m_accumulator' = 0
      /\ m_last_delta' = 0
      /\ m_last_steps' = 0
      /\ m_paused' = FALSE
      /\ now' = t
      /\ m_last' = IF start_now THEN t ELSE m_last
      /\ UNCHANGED <<m_step_error_caught, config, callbacks>>
      /\ NoCalls("reset")

\* void reset(bool start_now)
reset == \E start_now \in BOOLEAN : resetWith(start_now, MaxNow)

\* the elapsed time tick_with_clock() hands to advance()
TickElapsed(t, last) == t - (IF last = 0 THEN t ELSE last)

tickKeepingReferenceWhilePaused(maxNow) ==
    \E t \in ClockReadings(maxNow) :
      \E failAt \in StepOutcomes(TickElapsed(t, m_last)) :
        \E errThrows \in ErrorOutcomes(failAt) :
          /\ now' = t
          /\ IF m_paused
             THEN /\ m_last_delta' = 0
                  /\ m_last_steps' = 0
                  /\ UNCHANGED <<m_last, m_accumulator, m_paused,
                                 m_step_error_caught, config, callbacks>>
                  /\ NoCalls("tick")
             ELSE /\ m_last' = t
                  /\ advance("tick", TickElapsed(t, m_last), failAt, errThrows)

\* double tick(): tick_with_clock(steady_clock::now()), called while the clock
\* shows at most maxNow
tickUpTo(maxNow) ==
    \E t \in ClockReadings(maxNow) :
      \E failAt \in StepOutcomes(TickElapsed(t, m_last)) :
        \E errThrows \in ErrorOutcomes(failAt) :
          /\ now' = t
          /\ m_last' = t
          /\ IF m_paused
             THEN /\ m_last_delta' = 0
                  /\ m_last_steps' = 0
                  /\ UNCHANGED <<m_accumulator, m_paused, m_step_error_caught,
                                 config, callbacks>>
                  /\ NoCalls("tick")
             ELSE advance("tick", TickElapsed(t, m_last), failAt, errThrows)

\* double tick()
tick == tickUpTo(MaxNow)

\* duration_cast<nanoseconds>(duration<double>(1.0 / hz))
HzToStep(hz) == TruncDiv(TicksPerSecond, hz)

\* void set_hz(double hz)
set_hz ==
    \E hz \in HzArgs :
        /\ step' = IF hz <= 0 THEN step ELSE HzToStep(hz)
        /\ UNCHANGED <<time_scale, safety_max_delta, safety_max_substeps,
                       safety_max_accumulator_overflow, callbacks, clock, run>>
        /\ NoCalls("other")

\* void set_step(nanoseconds s)
set_step ==
    \E s \in StepArgs :
        /\ step' = IF s <= 0 THEN step ELSE s
        /\ UNCHANGED <<time_scale, safety_max_delta, safety_max_substeps,
                       safety_max_accumulator_overflow, callbacks, clock, run>>
        /\ NoCalls("other")

\* void set_max_delta(nanoseconds d)
set_max_delta ==
    \E d \in DeltaArgs :
        /\ safety_max_delta' = IF d <= 0 THEN safety_max_delta ELSE d
        /\ UNCHANGED <<step, time_scale, safety_max_substeps,
                       safety_max_accumulator_overflow, callbacks, clock, run>>
        /\ NoCalls("other")

\* void set_max_substeps(size_t n)
set_max_substeps ==
    \E n \in SubstepArgs :
        /\ safety_max_substeps' = IF n > 0 THEN n ELSE 1
        /\ UNCHANGED <<step, time_scale, safety_max_delta,
                       safety_max_accumulator_overflow, callbacks, clock, run>>
        /\ NoCalls("other")

\* void set_time_scale(double s)
set_time_scale ==
    \E s \in ScaleArgs :
        /\ time_scale' = IF s < 0 THEN 0 ELSE s
        /\ UNCHANGED <<step, safety_max_delta, safety_max_substeps,
                       safety_max_accumulator_overflow, callbacks, clock, run>>
        /\ NoCalls("other")

\* void pause(bool p = true)
pause ==
    \E p \in BOOLEAN :
        /\ m_paused' = p
        /\ UNCHANGED <<m_accumulator, m_step_error_caught, m_last_delta, m_last_steps,
                       config, callbacks, clock>>
        /\ NoCalls("other")

\* void resume()
resume ==
    /\ m_paused' = FALSE
    /\ UNCHANGED <<m_accumulator, m_step_error_caught, m_last_delta, m_last_steps,
                   config, callbacks, clock>>
    /\ NoCalls("other")

\* void toggle_pause()
toggle_pause ==
    /\ m_paused' = ~m_paused
    /\ UNCHANGED <<m_accumulator, m_step_error_caught, m_last_delta, m_last_steps,
                   config, callbacks, clock>>
    /\ NoCalls("other")

\* void set_step_function(OnStepFunction fn); fn may be empty
set_step_function ==
    \E fn \in BOOLEAN :
        /\ m_on_update_function' = fn
        /\ UNCHANGED <<m_on_error_function, config, clock, run>>
        /\ NoCalls("other")

\* void set_error_function(OnErrorFunction fn); fn may be empty
set_error_function ==
    \E fn \in BOOLEAN :
        /\ m_on_error_function' = fn
        /\ UNCHANGED <<m_on_update_function, config, clock, run>>
        /\ NoCalls("other")

Next ==
    \/ push_time
    \/ tick
    \/ reset
    \/ set_hz
    \/ set_step
    \/ set_max_delta
    \/ set_max_substeps
    \/ set_time_scale
    \/ pause
    \/ resume
    \/ toggle_pause
    \/ set_step_function
    \/ set_error_function

Spec == Init /\ [][Next]_vars

\* double tick(), with a clock that runs on to ClockMaxNow
tickLate == tickUpTo(ClockMaxNow)

\* the runner driven by tick() alone, paused and resumed in between
NextClock ==
    \/ tickLate
    \/ pause
    \/ resume
    \/ toggle_pause

SpecClock == Init /\ [][NextClock]_vars

\* ------------------------------------------------------------------------
\* Properties.  A step of the specification whose new lastOp is "push_time"
\* or "tick" is one call of that operation; the unprimed variables are the
\* state it was called in and the primed ones the state it returned in.  A
\* call made while not paused records its elapsed input in m_last_delta.
\* ------------------------------------------------------------------------
AdvanceOps == {"push_time", "tick"}

\* the state is the one an advance call returned in
AfterAdvance == lastOp \in AdvanceOps /\ ~terminated

\* the step is an advance call that returns
AdvanceCall == lastOp' \in AdvanceOps /\ ~terminated'

\* the step is an advance call made while not paused that returns
RunningCall == AdvanceCall /\ ~m_paused

\* the accumulator at the end of the step loop of the call, before the trim
Leftover ==
    AfterLoop(m_accumulator, m_last_delta', step, time_scale, safety_max_delta,
              safety_max_substeps, m_on_update_function, m_on_error_function,
              {}, FALSE).acc

\* the outcome of the same call with raw elapsed time e and a step callback
\* that never raises
Unfailing(e) ==
    Advance(m_accumulator, e, step, time_scale, safety_max_delta,
            safety_max_substeps, safety_max_accumulator_overflow,
            m_on_update_function, m_on_error_function, {}, FALSE)

\* C1: every advance call (push_time or tick) that returns leaves in
\* last_step_count at most safety_max_substeps, whatever the elapsed input.
C1_StepsWithinCap ==
    AfterAdvance => m_last_steps <= safety_max_substeps

\* C1 witness: a call fed more than safety_max_delta ran into the cap and left
\* at least one more step in the accumulator.
C1_Witness ==
    /\ AfterAdvance /\ ~m_paused
    /\ m_last_delta > safety_max_delta
    /\ m_last_steps = safety_max_substeps
    /\ step > 0 /\ m_accumulator >= step

\* C2: the accumulator is never negative, in any state any sequence of public
\* operations reaches.
C2_AccumulatorNonNegative == m_accumulator >= 0

\* C3 as stated: after any advance call, paused or not, the accumulator is at
\* most step * safety_max_accumulator_overflow.  (Stated for a positive step, so
\* that a violation owes nothing to a step of 0.)
C3_TrimAfterAnyAdvance ==
    (AfterAdvance /\ step > 0)
        => m_accumulator <= step * safety_max_accumulator_overflow

\* C3 amended: after any advance call made while the runner is not paused the
\* accumulator is at most step * safety_max_accumulator_overflow, and it is
\* exactly that ceiling when the step loop left more than the ceiling.
C3_TrimAfterRunningAdvance ==
    [][RunningCall =>
        /\ m_accumulator' <= step * safety_max_accumulator_overflow
        /\ (Leftover > step * safety_max_accumulator_overflow
              => m_accumulator' = step * safety_max_accumulator_overflow)]_vars

\* C3 witness: the cap stopped the loop and the leftover was cut to the ceiling.
C3_Witness ==
    /\ AfterAdvance /\ ~m_paused
    /\ m_last_steps = safety_max_substeps
    /\ trimmed
    /\ step > 0
    /\ m_accumulator = step * safety_max_accumulator_overflow

\* C4: in every reachable state 0 <= accumulator < step *
\* safety_max_accumulator_overflow, i.e. alpha() is in [0, overflow).
C4_AlphaHalfOpenRange ==
    /\ 0 <= m_accumulator
    /\ m_accumulator < step * safety_max_accumulator_overflow

\* C5: an advance call (push_time or tick) that did not perform the overflow
\* trim returns with 0 <= accumulator < step, i.e. with alpha in [0, 1).
C5_AlphaBelowOneWithoutTrim ==
    (AfterAdvance /\ ~trimmed) => (0 <= m_accumulator /\ m_accumulator < step)

\* the elapsed input of the call is within [0, safety_max_delta]
InputWithinMaxDelta == 0 <= m_last_delta' /\ m_last_delta' <= safety_max_delta

\* C6 as stated: for a non-paused advance call with 0 <= elapsed <=
\* safety_max_delta, accumulator_after = accumulator_before
\* + elapsed * time_scale - steps_taken * step, the scale being
\* time_scale / ScaleDen.  (Stated for a positive step and a non-negative
\* accumulator, so that a violation owes nothing to a state outside them.)
C6_ExactConservation ==
    [][(RunningCall /\ InputWithinMaxDelta /\ step > 0 /\ m_accumulator >= 0)
        => m_accumulator' * ScaleDen
             = m_accumulator * ScaleDen + m_last_delta' * time_scale
               - m_last_steps' * step * ScaleDen]_vars

\* C6 amended: for such a call accumulator_after is accumulator_before
\* + trunc(elapsed * time_scale) - steps_taken * step, unless that exceeds
\* step * safety_max_accumulator_overflow, and then it is that ceiling.
C6_ConservationUpToTruncAndTrim ==
    [][(RunningCall /\ InputWithinMaxDelta)
        => LET scaled == (m_last_delta' * time_scale) \div ScaleDen
               kept   == m_accumulator + scaled - m_last_steps' * step
               ceil   == step * safety_max_accumulator_overflow
           IN m_accumulator' = IF kept > ceil THEN ceil ELSE kept]_vars

\* C6 witness: a call that ran steps on an input whose scaled value was
\* truncated.
C6_Witness ==
    /\ AfterAdvance /\ ~m_paused
    /\ 0 < m_last_delta /\ m_last_delta <= safety_max_delta
    /\ (m_last_delta * time_scale) % ScaleDen # 0
    /\ m_last_steps > 0

\* C7: for a non-paused advance call with 0 <= elapsed <= safety_max_delta
\* that took fewer than safety_max_substeps steps, 0 <= accumulator < step
\* afterwards.
C7_BelowStepWhenCapNotHit ==
    [][(RunningCall /\ InputWithinMaxDelta /\ m_last_steps' < safety_max_substeps)
        => (0 <= m_accumulator' /\ m_accumulator' < step)]_vars

\* C8: push_time(e) with e > safety_max_delta takes the same number of steps
\* and leaves the same accumulator as push_time(safety_max_delta) from the
\* same state.
C8_ClampIdempotence ==
    [][(lastOp' = "push_time" /\ ~terminated' /\ ~m_paused
          /\ m_last_delta' > safety_max_delta)
        => /\ m_accumulator' = Unfailing(safety_max_delta).acc
           /\ m_last_steps' = Unfailing(safety_max_delta).steps]_vars

\* C8 witness: a push_time above safety_max_delta that ran steps and left a
\* part of a step.
C8_Witness ==
    /\ lastOp = "push_time" /\ ~terminated /\ ~m_paused
    /\ m_last_delta > safety_max_delta
    /\ m_last_steps > 0
    /\ m_accumulator > 0

\* C9: a tick()/push_time() made while paused leaves the accumulator as it
\* was, invokes no callback and sets last_step_count and last_raw_delta to 0;
\* pause, resume and toggle_pause leave the accumulator as it was.
C9_PausedIsFrozen ==
    [][/\ (m_paused /\ lastOp' \in AdvanceOps)
            => /\ m_accumulator' = m_accumulator
               /\ step_calls' = 0 /\ error_calls' = 0
               /\ m_last_steps' = 0
               /\ m_last_delta' = 0
       /\ (pause \/ resume \/ toggle_pause)
            => m_accumulator' = m_accumulator]_vars

\* C9 witness: an advance call returned in the paused state although a step
\* callback is set and the accumulator holds a whole step.
C9_Witness ==
    /\ AfterAdvance /\ m_paused
    /\ m_on_update_function
    /\ step > 0 /\ m_accumulator >= step
    /\ m_last_steps = 0 /\ m_last_delta = 0

\* C10: in any advance call made while not paused, whichever invocations of
\* the step callback raise, the call takes the steps and leaves the
\* accumulator of the same call with a callback that never raises,
\* step_error_caught is true afterwards iff an invocation raised, the error
\* callback (if set) is invoked once per raising invocation, and every step
\* of the call runs.
C10_StepFailureIsolation ==
    [][(lastOp' \in AdvanceOps /\ ~m_paused)
        => /\ ~terminated'
           /\ m_last_steps' = Unfailing(m_last_delta').steps
           /\ m_accumulator' = Unfailing(m_last_delta').acc
           /\ m_step_error_caught' = (fail_calls' > 0)
           /\ (m_on_error_function => error_calls' = fail_calls')
           /\ (m_on_update_function => step_calls' = m_last_steps')]_vars

\* C11: in every state, step_error_caught() is true iff the step callback
\* raised during the most recent advance call (tick or push_time).  Stated
\* step by step: an advance call that returns leaves the flag true iff an
\* invocation of the step callback raised in that call, and every other
\* operation (pause, resume, reset, the setters) leaves the flag as it was.
C11_ErrorFlagTracksLastAdvance ==
    [][/\ AdvanceCall => m_step_error_caught' = (fail_calls' > 0)
       /\ (lastOp' \notin AdvanceOps) => m_step_error_caught' = m_step_error_caught
      ]_vars

\* C12: no public operation ends the process: std::terminate is never reached,
\* whatever the step callback and the error callback do.
C12_NoCallAborts == ~terminated

\* C13: with time_scale 0, an advance call made while not paused
\* leaves the accumulator as it was, executes no fixed step and invokes no
\* callback, and paused() stays false.  (Stated for a positive step and a
\* non-negative accumulator, so that a violation owes nothing to either.)
C13_ZeroScaleRunsNoStep ==
    [][(RunningCall /\ time_scale = 0 /\ step > 0 /\ m_accumulator >= 0)
        => /\ m_accumulator' = m_accumulator
           /\ m_last_steps' = 0
           /\ step_calls' = 0
           /\ ~m_paused']_vars

\* What does hold with time_scale 0: an advance call made while not paused adds
\* nothing to the accumulator and paused() stays false; the accumulator ends
\* at what it held less the steps taken (cut to the overflow ceiling), and
\* when it held less than one step the call executes no step.
ZeroScaleAddsNothing ==
    [][(RunningCall /\ time_scale = 0)
        => /\ ~m_paused'
           /\ m_accumulator' <= m_accumulator - m_last_steps' * step
           /\ (~trimmed' => m_accumulator' = m_accumulator - m_last_steps' * step)
           /\ (m_accumulator < step
                 => /\ m_accumulator' = m_accumulator
                    /\ m_last_steps' = 0
                    /\ step_calls' = 0)]_vars

\* step > 0, safety_max_delta > 0, time_scale >= 0, safety_max_substeps >= 1
ConfigValid ==
    /\ step > 0
    /\ safety_max_delta > 0
    /\ time_scale >= 0
    /\ safety_max_substeps >= 1

\* C14: the configuration, valid after construction, is valid in every state
\* any sequence of set_step, set_hz, set_max_delta, set_max_substeps and
\* set_time_scale calls reaches, whatever their arguments.
C14_ConfigStaysValid == ConfigValid

\* C15: reset(start_now), from any state, sets accumulator, last_raw_delta and
\* last_step_count to 0 and clears paused; it leaves every configuration field
\* and both callbacks as they were; and it leaves the clock reference as it was
\* unless start_now is true.
C15_ResetFrame ==
    [][/\ lastOp' = "reset"
            => /\ m_accumulator' = 0
               /\ m_last_delta' = 0
               /\ m_last_steps' = 0
               /\ ~m_paused'
               /\ UNCHANGED <<config, callbacks>>
       /\ resetWith(FALSE, MaxNow) => m_last' = m_last]_vars

\* C15 witness: reset(false) on a runner whose last call caught a failure: the
\* clock reference is still unset, the callbacks are still there.
C15_Witness ==
    /\ lastOp = "reset"
    /\ m_step_error_caught
    /\ m_last = 0
    /\ m_on_update_function /\ m_on_error_function
    /\ m_accumulator = 0 /\ ~m_paused

WithCallback(e) ==
    Advance(m_accumulator, e, step, time_scale, safety_max_delta,
            safety_max_substeps, safety_max_accumulator_overflow,
            TRUE, m_on_error_function, {}, FALSE)

\* C17: an advance call made while not paused on a runner with no step
\* callback takes the steps and leaves the accumulator of the same call with
\* a callback (step off the accumulator per step, each counted in
\* last_step_count), invokes nothing, and leaves step_error_caught false.
C17_NoCallbackStillConsumes ==
    [][(lastOp' \in AdvanceOps /\ ~m_paused /\ ~m_on_update_function)
        => /\ ~terminated'
           /\ m_last_steps' = WithCallback(fed').steps
           /\ m_accumulator' = WithCallback(fed').acc
           /\ (~trimmed' => m_accumulator' =
                  m_accumulator + ScaledDelta(fed', safety_max_delta, time_scale)
                    - m_last_steps' * step)
           /\ step_calls' = 0 /\ error_calls' = 0
           /\ ~m_step_error_caught']_vars

\* C17 witness: a runner with no step callback took a step and kept a
\* remainder below one step.
C17_Witness ==
    /\ AfterAdvance /\ ~m_paused
    /\ ~m_on_update_function
    /\ m_last_steps > 0
    /\ step_calls = 0
    /\ m_accumulator > 0 /\ m_accumulator < step

\* C18: an advance call made while not paused adds to the accumulator
\* trunc(min(raw_elapsed, safety_max_delta) * time_scale), clamping before it
\* scales, and records in last_raw_delta the raw input, neither clamped nor
\* scaled.  (What was added is read off a call that did not trim: the
\* accumulator left plus the steps taken, less the accumulator before.)
C18_ClampThenScale ==
    [][RunningCall =>
        LET clamped == IF fed' > safety_max_delta THEN safety_max_delta ELSE fed'
            product == clamped * time_scale
            added   == IF product >= 0 THEN product \div ScaleDen
                                       ELSE -((-product) \div ScaleDen)
        IN  /\ m_last_delta' = fed'
            /\ (~trimmed' => m_accumulator' + m_last_steps' * step - m_accumulator
                                = added)]_vars

\* C18 witness: with time_scale above 1.0, a call fed more than
\* safety_max_delta left more than safety_max_delta in steps and accumulator,
\* and last_raw_delta holds the input, above the clamp.
C18_Witness ==
    /\ AfterAdvance /\ ~m_paused /\ ~trimmed
    /\ time_scale > ScaleDen
    /\ fed > safety_max_delta
    /\ m_last_delta = fed
    /\ m_accumulator + m_last_steps * step > safety_max_delta

\* C19 (each catch-up call): with a valid configuration and the runner not
\* paused, an advance call with elapsed 0 made while the accumulator holds a
\* backlog of at least one step executes min(floor(accumulator / step),
\* safety_max_substeps) steps and leaves less in the accumulator, so that
\* repeating the call brings the accumulator below step.
C19_CatchUpCall ==
    [][(/\ lastOp' \in AdvanceOps /\ ~m_paused /\ fed' = 0
        /\ step > 0 /\ safety_max_substeps >= 1
        /\ m_accumulator >= step)
        => LET backlog == m_accumulator \div step
           IN  /\ ~terminated'
               /\ m_last_steps' = IF backlog < safety_max_substeps
                                   THEN backlog ELSE safety_max_substeps
               /\ m_accumulator' < m_accumulator]_vars

\* C20: a tick() made while paused moves the clock reference to the time it
\* sampled, as a tick() made while not paused does, so a tick() made while not
\* paused feeds advance the time since the latest tick(), paused or not (after
\* resume, the time since the last paused tick); and a tick() that finds the
\* clock reference unset (zero) feeds advance an elapsed time of 0.
C20_PausedTickMovesReference ==
    [][lastOp' = "tick"
        => /\ m_last' = now'
           /\ m_paused => (fed' = 0 /\ m_accumulator' = m_accumulator)
           /\ ~m_paused => fed' = IF m_last = 0 THEN 0 ELSE now' - now]_vars

\* C20 witness: on a runner constructed with a callback (its clock reference
\* set then), the clock ran two ticks on from construction, one of them spent
\* paused: the tick after resume fed advance one tick only and the
\* accumulator holds that one tick.
C20_Witness ==
    /\ lastOp = "tick" /\ ~m_paused /\ ~terminated
    /\ m_on_update_function
    /\ now >= 3 /\ m_last = now
    /\ fed = 1 /\ m_last_delta = 1
    /\ step > 1 /\ m_last_steps = 0 /\ m_accumulator = 1

====
